---- MODULE Spec2Model ----
(***************************************************************************)
(* The music catalogue of app/music/models.py: seven tables (Author,        *)
(* Musician, Album, Song, Profile, RelationshipAuthorMusician,              *)
(* RelationshipAuthorSong) and the user table they refer to, with the       *)
(* operations the models give them: save() with its validation, delete()    *)
(* with the on_delete policy of every foreign key, and add() on the         *)
(* many-to-many relation Song.authors.                                      *)
(*                                                                          *)
(* A nullable value is a set with at most one element: Null is {} and       *)
(* Some(v) is {v}.  A table is a function from the stored primary keys to   *)
(* rows.  Years, and the two automatic timestamps of a Song, are read from  *)
(* the clock `now`, which holds the calendar year.  A price is an integer   *)
(* number of 10^-decimal_places units (cents).                              *)
(***************************************************************************)
EXTENDS Integers, FiniteSets, Sequences, TLC

\* ------------------------------------------------------------------ bounds
MaxAuthor == 2
MaxMusician == 1
MaxAlbum == 1
MaxSong == 1
MaxUser == 1
MaxProfile == 1
MaxAuthorMusician == 1
MaxAuthorSong == 2
\* the calendar year at the start, and how many new years the clock sees
BaseYear == 2024
MaxTicks == 1

AuthorIds == 1..MaxAuthor
MusicianIds == 1..MaxMusician
AlbumIds == 1..MaxAlbum
SongIds == 1..MaxSong
UserIds == 1..MaxUser
ProfileIds == 1..MaxProfile
AuthorMusicianIds == 1..MaxAuthorMusician
AuthorSongIds == 1..MaxAuthorSong

VARIABLES now, authors, musicians, albums, songs, users, profiles,
          authorMusician, authorSong,
          called,   \* the most recent call: "save", "add" or "<Model>.delete"
          raised    \* the exception it ended with, or "none"

vars == <<now, authors, musicians, albums, songs, users, profiles,
          authorMusician, authorSong, called, raised>>

tables == <<authors, musicians, albums, songs, users, profiles,
            authorMusician, authorSong>>

\* ------------------------------------------------------- nullable values
Null == {}
Some(v) == {v}
Val(x) == CHOOSE v \in x : TRUE
Nullable(S) == {Null} \cup {Some(v) : v \in S}

\* ----------------------------------------------------------------- tables
Put(tbl, pk, row) ==
    [k \in DOMAIN tbl \cup {pk} |-> IF k = pk THEN row ELSE tbl[k]]

Without(tbl, pks) == [k \in DOMAIN tbl \ pks |-> tbl[k]]

Empty == [k \in {} |-> {}]

\* -------------------------------------------------------- the validators
\* less_than_five(value): TRUE when it raises nothing
decimal_places == 2
max_digits == 4

less_than_five_accepts_five(value) == ~(value > 5 * 10^decimal_places)

less_than_five(value) == ~(value >= 5 * 10^decimal_places)

\* DecimalField(decimal_places=2, max_digits=4): at most max_digits digits
DecimalField_ok(value) ==
    /\ value < 10^max_digits
    /\ value > -(10^max_digits)

get_current_year_at_definition == BaseYear

get_current_year == now

MinYear == 1000

MinValueValidator(limit, value) == ~(value < limit)

MaxValueValidator(limit, value) == ~(value > limit)

\* validators=[MinValueValidator(1000), MaxValueValidator(get_current_year)];
\* a field runs no validator on an empty value
YearValidators(x) ==
    x # Null =>
        /\ MinValueValidator(MinYear, Val(x))
        /\ MaxValueValidator(get_current_year, Val(x))

\* null=True, blank=True against the default null=False, blank=False
NotNull(x) == x # Null

\* CharField(max_length=n), blank=False
CharField_ok(s, max_length) == s # "" /\ Len(s) <= max_length

\* a CharField with null=True, blank=True
OptionalCharField_ok(x, max_length) ==
    x # Null => Len(Val(x)) <= max_length

\* validate_unique() for the primary key: an instance that is being added
\* must not carry the primary key of a stored row
PkUnique(tbl, pk, adding) == ~(adding /\ pk \in DOMAIN tbl)

\* ForeignKey.validate(): the referenced row is stored (keys: its table's
\* primary keys); a null reference refers to nothing
Refers(x, keys) == x \subseteq keys

\* --------------------------------------------------------------- save()
\* ValidatedModel.save(): full_clean() and only then the write
ValidatedModel_save_unvalidated(tbl, pk, row, clean) == Put(tbl, pk, row)

ValidatedModel_save(tbl, pk, row, clean) ==
    IF clean THEN Put(tbl, pk, row) ELSE tbl

Raises(clean) == IF clean THEN "none" ELSE "ValidationError"

\* --------------------------------------------------------------- Author
URLs == {"http://a.example"}

Author_clean_fields(a) ==
    /\ CharField_ok(a.name, 255)
    /\ a.website # Null => Val(a.website) \in URLs
    /\ YearValidators(a.first_appearance)
    /\ YearValidators(a.last_appearance)

\* Python truth of an optional integer: neither None nor 0
Truthy(x) == x # Null /\ x # Some(0)

Author_clean_rejects_equal(a) ==
    ~(/\ Truthy(a.first_appearance)
      /\ Truthy(a.last_appearance)
      /\ Val(a.first_appearance) >= Val(a.last_appearance))

Author_clean(a) ==
    ~(/\ Truthy(a.first_appearance)
      /\ Truthy(a.last_appearance)
      /\ Val(a.first_appearance) > Val(a.last_appearance))

Author_full_clean(pk, a, adding) ==
    /\ Author_clean_fields(a)
    /\ Author_clean(a)
    /\ PkUnique(authors, pk, adding)

SaveAuthor(pk, a, adding) ==
    LET clean == Author_full_clean(pk, a, adding) IN
    /\ authors' = ValidatedModel_save(authors, pk, a, clean)
    /\ called' = "save"
    /\ raised' = Raises(clean)
    /\ UNCHANGED <<now, musicians, albums, songs, users, profiles,
                   authorMusician, authorSong>>

\* ---------------------------------------------------------------- Album
Album_full_clean(pk, al, adding) ==
    /\ CharField_ok(al.title, 255)
    /\ NotNull(al.year_of_release)
    /\ YearValidators(al.year_of_release)
    /\ OptionalCharField_ok(al.produced_by, 255)
    /\ PkUnique(albums, pk, adding)

SaveAlbum(pk, al, adding) ==
    LET clean == Album_full_clean(pk, al, adding) IN
    /\ albums' = ValidatedModel_save(albums, pk, al, clean)
    /\ called' = "save"
    /\ raised' = Raises(clean)
    /\ UNCHANGED <<now, authors, musicians, songs, users, profiles,
                   authorMusician, authorSong>>

\* ------------------------------------------------------------- Musician
INSTRUMENTS ==
    {"piano", "eguitar", "cguitar", "aguitar", "ebass", "bass", "drums",
     "voice", "violin", "harp", "handpan", "tambourine", "sax", "trumpet",
     "trombone", "flute", "clarinet", "ukulele"}

Musician_full_clean(pk, m, adding) ==
    /\ CharField_ok(m.name, 150)
    /\ CharField_ok(m.nationality, 2)
    /\ CharField_ok(m.instrument, 25)
    /\ m.instrument \in INSTRUMENTS
    /\ NotNull(m.author)
    /\ Refers(m.author, DOMAIN authors)
    /\ PkUnique(musicians, pk, adding)

SaveMusician(pk, m, adding) ==
    LET clean == Musician_full_clean(pk, m, adding) IN
    /\ musicians' = ValidatedModel_save(musicians, pk, m, clean)
    /\ called' = "save"
    /\ raised' = Raises(clean)
    /\ UNCHANGED <<now, authors, albums, songs, users, profiles,
                   authorMusician, authorSong>>

\* ----------------------------------------------------------------- Song
STYLES ==
    {"Indie", "Pop", "Rock", "Funky", "Reggaeton", "Classic", "Orquestra",
     "Folk"}

\* UniqueConstraint(fields=["title", "author", "album", "duration"]) as
\* validate_constraints() and the unique index apply it: a row with a null
\* in one of the fields conflicts with no row (NULL is distinct from NULL);
\* a row that is being updated is not compared with itself
unique_song(pk, s, adding) ==
    \/ s.author = Null
    \/ s.album = Null
    \/ s.duration = Null
    \/ ~ \E k \in DOMAIN songs :
           /\ adding \/ k # pk
           /\ songs[k].title = s.title
           /\ songs[k].author = s.author
           /\ songs[k].album = s.album
           /\ songs[k].duration = s.duration

Song_full_clean(pk, s, adding) ==
    /\ s.audio # ""
    /\ CharField_ok(s.title, 250)
    /\ Refers(s.author, DOMAIN authors)
    /\ Refers(s.album, DOMAIN albums)
    /\ NotNull(s.duration)
    /\ s.style # Null => (Val(s.style) \in STYLES /\ Len(Val(s.style)) <= 20)
    /\ s.playbacks # Null => Val(s.playbacks) >= 0
    /\ DecimalField_ok(s.price)
    /\ less_than_five(s.price)
    /\ s.deal_of_the_day \in BOOLEAN
    /\ Refers(s.created_by, users)
    /\ Refers(s.last_modified_by, users)
    /\ PkUnique(songs, pk, adding)
    /\ unique_song(pk, s, adding)

\* the row save() writes: auto_now_add sets created when the row is
\* inserted, auto_now sets last_modified on every save
SongRow(pk, s) ==
    [audio |-> s.audio, title |-> s.title, author |-> s.author,
     album |-> s.album, duration |-> s.duration, style |-> s.style,
     playbacks |-> s.playbacks, price |-> s.price,
     deal_of_the_day |-> s.deal_of_the_day,
     created |-> IF pk \in DOMAIN songs THEN songs[pk].created ELSE now,
     created_by |-> s.created_by,
     last_modified |-> now,
     last_modified_by |-> s.last_modified_by]

SaveSong(pk, s, adding) ==
    LET clean == Song_full_clean(pk, s, adding) IN
    /\ songs' = ValidatedModel_save(songs, pk, SongRow(pk, s), clean)
    /\ called' = "save"
    /\ raised' = Raises(clean)
    /\ UNCHANGED <<now, authors, musicians, albums, users, profiles,
                   authorMusician, authorSong>>

\* -------------------------------------------------------------- Profile
\* a TimeField value <<hour, minute, second>>
TimeField_ok(t) == t[1] \in 0..23 /\ t[2] \in 0..59 /\ t[3] \in 0..59

\* OneToOneField: no other profile of the same user
Profile_user_unique(pk, p, adding) ==
    ~ \E k \in DOMAIN profiles :
        /\ adding \/ k # pk
        /\ profiles[k].user = p.user

Profile_full_clean(pk, p, adding) ==
    /\ NotNull(p.user)
    /\ Refers(p.user, users)
    /\ TimeField_ok(p.daily_start_time)
    /\ TimeField_ok(p.daily_finish_time)
    /\ CharField_ok(p.preferred_style, 30)
    /\ p.preferred_style \in STYLES
    /\ Refers(p.preferred_song, DOMAIN songs)
    /\ PkUnique(profiles, pk, adding)
    /\ Profile_user_unique(pk, p, adding)

SaveProfile(pk, p, adding) ==
    LET clean == Profile_full_clean(pk, p, adding) IN
    /\ profiles' = ValidatedModel_save(profiles, pk, p, clean)
    /\ called' = "save"
    /\ raised' = Raises(clean)
    /\ UNCHANGED <<now, authors, musicians, albums, songs, users,
                   authorMusician, authorSong>>

\* ------------------------------------------- RelationshipAuthorMusician
RelationshipAuthorMusician_full_clean(pk, r, adding) ==
    /\ NotNull(r.author)
    /\ Refers(r.author, DOMAIN authors)
    /\ NotNull(r.musician)
    /\ Refers(r.musician, DOMAIN musicians)
    /\ PkUnique(authorMusician, pk, adding)

SaveRelationshipAuthorMusician(pk, r, adding) ==
    LET clean == RelationshipAuthorMusician_full_clean(pk, r, adding) IN
    /\ authorMusician' = ValidatedModel_save(authorMusician, pk, r, clean)
    /\ called' = "save"
    /\ raised' = Raises(clean)
    /\ UNCHANGED <<now, authors, musicians, albums, songs, users, profiles,
                   authorSong>>

\* ----------------------------------------------- RelationshipAuthorSong
RelationshipAuthorSong_full_clean(pk, r, adding) ==
    /\ NotNull(r.author)
    /\ Refers(r.author, DOMAIN authors)
    /\ NotNull(r.song)
    /\ Refers(r.song, DOMAIN songs)
    /\ PkUnique(authorSong, pk, adding)

SaveRelationshipAuthorSong(pk, r, adding) ==
    LET clean == RelationshipAuthorSong_full_clean(pk, r, adding) IN
    /\ authorSong' = ValidatedModel_save(authorSong, pk, r, clean)
    /\ called' = "save"
    /\ raised' = Raises(clean)
    /\ UNCHANGED <<now, authors, musicians, albums, songs, users, profiles,
                   authorMusician>>

\* ---------------------------------------------------------------- users
\* settings.AUTH_USER_MODEL: a user account is created
CreateUser(u) ==
    /\ u \notin users
    /\ users' = users \cup {u}
    /\ called' = "save"
    /\ raised' = "none"
    /\ UNCHANGED <<now, authors, musicians, albums, songs, profiles,
                   authorMusician, authorSong>>

\* ------------------------------------------------------------- delete()
\* the on_delete policy of every foreign key
Musician_author_on_delete == "CASCADE"
Song_author_on_delete_cascade == "CASCADE"
Song_author_on_delete == "SET_NULL"
Song_album_on_delete == "CASCADE"
Song_created_by_on_delete == "SET_NULL"
Song_last_modified_by_on_delete == "SET_NULL"
Profile_user_on_delete == "CASCADE"
Profile_preferred_song_on_delete_cascade == "CASCADE"
Profile_preferred_song_on_delete == "SET_NULL"
RelationshipAuthorMusician_author_on_delete == "CASCADE"
RelationshipAuthorMusician_musician_on_delete_nothing == "DO_NOTHING"
RelationshipAuthorMusician_musician_on_delete == "CASCADE"
RelationshipAuthorSong_author_on_delete == "CASCADE"
RelationshipAuthorSong_song_on_delete == "CASCADE"

\* the rows of tbl that go with the deleted rows their field refers to
Cascaded(tbl, field, on_delete, deleted) ==
    {k \in DOMAIN tbl :
        /\ on_delete = "CASCADE"
        /\ tbl[k][field] # Null
        /\ tbl[k][field] \subseteq deleted}

\* tbl with the field nulled in the rows that referred to a deleted row
SetNull(tbl, field, on_delete, deleted) ==
    [k \in DOMAIN tbl |->
        IF /\ on_delete = "SET_NULL"
           /\ tbl[k][field] # Null
           /\ tbl[k][field] \subseteq deleted
        THEN [tbl[k] EXCEPT ![field] = Null]
        ELSE tbl[k]]

NoRows ==
    [authors |-> {}, musicians |-> {}, albums |-> {}, songs |-> {},
     users |-> {}, profiles |-> {}, authorMusician |-> {}, authorSong |-> {}]

\* Model.delete(): the rows asked for (seed, a set of primary keys per
\* table), the rows that cascade from them, and the set-null updates
Delete(seed) ==
    LET dAuthors == seed.authors
        dAlbums == seed.albums
        dUsers == seed.users
        dMusicians ==
            seed.musicians
            \cup Cascaded(musicians, "author", Musician_author_on_delete, dAuthors)
        dSongs ==
            seed.songs
            \cup Cascaded(songs, "author", Song_author_on_delete, dAuthors)
            \cup Cascaded(songs, "album", Song_album_on_delete, dAlbums)
            \cup Cascaded(songs, "created_by", Song_created_by_on_delete, dUsers)
            \cup Cascaded(songs, "last_modified_by",
                          Song_last_modified_by_on_delete, dUsers)
        dProfiles ==
            seed.profiles
            \cup Cascaded(profiles, "user", Profile_user_on_delete, dUsers)
            \cup Cascaded(profiles, "preferred_song",
                          Profile_preferred_song_on_delete, dSongs)
        dAuthorMusician ==
            seed.authorMusician
            \cup Cascaded(authorMusician, "author",
                          RelationshipAuthorMusician_author_on_delete, dAuthors)
            \cup Cascaded(authorMusician, "musician",
                          RelationshipAuthorMusician_musician_on_delete, dMusicians)
        dAuthorSong ==
            seed.authorSong
            \cup Cascaded(authorSong, "author",
                          RelationshipAuthorSong_author_on_delete, dAuthors)
            \cup Cascaded(authorSong, "song",
                          RelationshipAuthorSong_song_on_delete, dSongs)
    IN
    /\ authors' = Without(authors, dAuthors)
    /\ albums' = Without(albums, dAlbums)
    /\ users' = users \ dUsers
    /\ musicians' =
         SetNull(Without(musicians, dMusicians), "author",
                 Musician_author_on_delete, dAuthors)
    /\ songs' =
         SetNull(SetNull(SetNull(SetNull(Without(songs, dSongs),
           "author", Song_author_on_delete, dAuthors),
           "album", Song_album_on_delete, dAlbums),
           "created_by", Song_created_by_on_delete, dUsers),
           "last_modified_by", Song_last_modified_by_on_delete, dUsers)
    /\ profiles' =
         SetNull(SetNull(Without(profiles, dProfiles),
           "user", Profile_user_on_delete, dUsers),
           "preferred_song", Profile_preferred_song_on_delete, dSongs)
    /\ authorMusician' =
         SetNull(SetNull(Without(authorMusician, dAuthorMusician),
           "author", RelationshipAuthorMusician_author_on_delete, dAuthors),
           "musician", RelationshipAuthorMusician_musician_on_delete, dMusicians)
    /\ authorSong' =
         SetNull(SetNull(Without(authorSong, dAuthorSong),
           "author", RelationshipAuthorSong_author_on_delete, dAuthors),
           "song", RelationshipAuthorSong_song_on_delete, dSongs)
    /\ raised' = "none"
    /\ UNCHANGED now

DeleteAuthor(pk) ==
    /\ pk \in DOMAIN authors
    /\ Delete([NoRows EXCEPT !.authors = {pk}])
    /\ called' = "Author.delete"

DeleteMusician(pk) ==
    /\ pk \in DOMAIN musicians
    /\ Delete([NoRows EXCEPT !.musicians = {pk}])
    /\ called' = "Musician.delete"

DeleteAlbum(pk) ==
    /\ pk \in DOMAIN albums
    /\ Delete([NoRows EXCEPT !.albums = {pk}])
    /\ called' = "Album.delete"

DeleteSong(pk) ==
    /\ pk \in DOMAIN songs
    /\ Delete([NoRows EXCEPT !.songs = {pk}])
    /\ called' = "Song.delete"

DeleteUser(pk) ==
    /\ pk \in users
    /\ Delete([NoRows EXCEPT !.users = {pk}])
    /\ called' = "User.delete"

DeleteProfile(pk) ==
    /\ pk \in DOMAIN profiles
    /\ Delete([NoRows EXCEPT !.profiles = {pk}])
    /\ called' = "Profile.delete"

DeleteRelationshipAuthorMusician(pk) ==
    /\ pk \in DOMAIN authorMusician
    /\ Delete([NoRows EXCEPT !.authorMusician = {pk}])
    /\ called' = "RelationshipAuthorMusician.delete"

DeleteRelationshipAuthorSong(pk) ==
    /\ pk \in DOMAIN authorSong
    /\ Delete([NoRows EXCEPT !.authorSong = {pk}])
    /\ called' = "RelationshipAuthorSong.delete"

\* ------------------------------------------------- Song.authors (M2M)
\* Song.objects.get(pk=s).authors.all(): the authors joined through
\* RelationshipAuthorSong, one result per join row
ThroughRows(s, a) ==
    {r \in DOMAIN authorSong :
        authorSong[r].song = Some(s) /\ authorSong[r].author = Some(a)}

authors_all(s) ==
    [a \in {x \in DOMAIN authors : ThroughRows(s, x) # {}} |->
        Cardinality(ThroughRows(s, a))]

\* the ids add() inserts a join row for: those the song is not joined to yet
missing_target_ids_unchecked(s, ids) == ids

missing_target_ids(s, ids) == {a \in ids : ThroughRows(s, a) = {}}

Injections(S, T) == {f \in [S -> T] : \A x, y \in S : f[x] = f[y] => x = y}

\* song.authors.add(*ids): one join row per missing id, written in bulk
\* without save(); a row for an author that is not stored breaks the
\* foreign key and nothing is written
AddAuthors(s, ids) ==
    LET missing == missing_target_ids(s, ids)
        free == AuthorSongIds \ DOMAIN authorSong
    IN
    /\ s \in DOMAIN songs
    /\ called' = "add"
    /\ UNCHANGED <<now, authors, musicians, albums, songs, users, profiles,
                   authorMusician>>
    /\ IF missing \subseteq DOMAIN authors
       THEN /\ raised' = "none"
            /\ \E pkOf \in Injections(missing, free) :
                 authorSong' =
                   [r \in DOMAIN authorSong \cup {pkOf[a] : a \in missing} |->
                      IF r \in DOMAIN authorSong THEN authorSong[r]
                      ELSE [author |-> Some(CHOOSE a \in missing : pkOf[a] = r),
                            song |-> Some(s)]]
       ELSE /\ raised' = "IntegrityError"
            /\ authorSong' = authorSong

\* ---------------------------------------------------------------- clock
\* datetime.datetime.today().year, one new year later
Tick ==
    /\ now < BaseYear + MaxTicks
    /\ now' = now + 1
    /\ UNCHANGED <<tables, called, raised>>

\* ----------------------------------------------------------------- Init
Init ==
    /\ now = BaseYear
    /\ authors = Empty
    /\ musicians = Empty
    /\ albums = Empty
    /\ songs = Empty
    /\ users = {}
    /\ profiles = Empty
    /\ authorMusician = Empty
    /\ authorSong = Empty
    /\ called = "none"
    /\ raised = "none"

\* ---------------------------------------------------- inputs of save()
AValidAuthor == [name |-> "n", website |-> Null,
                 first_appearance |-> Null, last_appearance |-> Null]

AValidAlbum == [title |-> "t", year_of_release |-> Some(BaseYear),
                produced_by |-> Null]

AValidMusician == [name |-> "n", nationality |-> "de",
                   instrument |-> "piano", author |-> Some(1)]

AValidSong ==
    [audio |-> "a.mp3", title |-> "a", author |-> Null, album |-> Null,
     duration |-> Some(180), style |-> Null, playbacks |-> Null, price |-> 0,
     deal_of_the_day |-> FALSE, created_by |-> Null,
     last_modified_by |-> Null]

AValidProfile ==
    [user |-> Some(1), daily_start_time |-> <<9, 0, 0>>,
     daily_finish_time |-> <<14, 0, 0>>, preferred_style |-> "Rock",
     preferred_song |-> Null]

\* every year a test of the bounds needs: none, zero, the years around
\* MinYear and the years around every current year
YearInputs ==
    Nullable({0, MinYear - 1, MinYear} \cup (BaseYear .. BaseYear + MaxTicks + 1))

PriceInputs ==
    {0, 5 * 10^decimal_places - 1, 5 * 10^decimal_places,
     5 * 10^decimal_places + 1, 10^max_digits - 1, 10^max_digits}

\* ------------------------------------------------------------- SpecVal
\* the year fields and the price, under a clock that moves; an instance is
\* a new one when its primary key is not stored and one loaded from its
\* row when it is
OrderYears == {Null, Some(0), Some(MinYear), Some(BaseYear)}

AuthorInputsVal ==
    {[AValidAuthor EXCEPT !.first_appearance = f, !.last_appearance = l] :
        f \in OrderYears, l \in OrderYears}
    \cup {[AValidAuthor EXCEPT !.first_appearance = y] : y \in YearInputs}
    \cup {[AValidAuthor EXCEPT !.last_appearance = y] : y \in YearInputs}
    \cup {[AValidAuthor EXCEPT !.first_appearance = y, !.last_appearance = y] :
            y \in YearInputs}

AlbumInputsVal ==
    {[AValidAlbum EXCEPT !.year_of_release = y] : y \in YearInputs}

SongInputsVal ==
    {[AValidSong EXCEPT !.price = p] : p \in PriceInputs}
    \cup {[AValidSong EXCEPT !.duration = Null]}

NextVal ==
    \/ Tick
    \/ \E a \in AuthorInputsVal : SaveAuthor(1, a, 1 \notin DOMAIN authors)
    \/ \E al \in AlbumInputsVal : SaveAlbum(1, al, 1 \notin DOMAIN albums)
    \/ \E sg \in SongInputsVal : SaveSong(1, sg, 1 \notin DOMAIN songs)

SpecVal == Init /\ [][NextVal]_vars

\* ------------------------------------------------------------ SpecSave
\* save() of every model, one instance each, with inputs that break each
\* kind of rule; a loaded instance exists only of a stored row
Adding(tbl, pk) == IF pk \in DOMAIN tbl THEN BOOLEAN ELSE {TRUE}

AuthorInputsSave ==
    {AValidAuthor,
     [AValidAuthor EXCEPT !.first_appearance = Some(BaseYear),
                          !.last_appearance = Some(BaseYear)],
     [AValidAuthor EXCEPT !.first_appearance = Some(BaseYear),
                          !.last_appearance = Some(MinYear)],
     [AValidAuthor EXCEPT !.first_appearance = Some(BaseYear + 1)],
     [AValidAuthor EXCEPT !.last_appearance = Some(MinYear - 1)],
     [AValidAuthor EXCEPT !.name = ""],
     [AValidAuthor EXCEPT !.website = Some("not a url")]}

AlbumInputsSave ==
    {AValidAlbum, [AValidAlbum EXCEPT !.title = ""],
     [AValidAlbum EXCEPT !.year_of_release = Null],
     [AValidAlbum EXCEPT !.year_of_release = Some(MinYear - 1)],
     [AValidAlbum EXCEPT !.year_of_release = Some(BaseYear + 1)]}

MusicianInputsSave ==
    {AValidMusician, [AValidMusician EXCEPT !.nationality = "deu"],
     [AValidMusician EXCEPT !.instrument = "kazoo"],
     [AValidMusician EXCEPT !.author = Null]}

SongInputsSave ==
    {AValidSong,
     [AValidSong EXCEPT !.author = Some(1), !.album = Some(1)],
     [AValidSong EXCEPT !.audio = ""],
     [AValidSong EXCEPT !.style = Some("Jazz")],
     [AValidSong EXCEPT !.playbacks = Some(-1)],
     [AValidSong EXCEPT !.price = 5 * 10^decimal_places],
     [AValidSong EXCEPT !.created_by = Some(1)]}

ProfileInputsSave ==
    {AValidProfile, [AValidProfile EXCEPT !.preferred_song = Some(1)],
     [AValidProfile EXCEPT !.user = Null],
     [AValidProfile EXCEPT !.daily_start_time = <<24, 0, 0>>],
     [AValidProfile EXCEPT !.preferred_style = "Jazz"]}

AValidRelationshipAuthorMusician ==
    [author |-> Some(1), musician |-> Some(1), start |-> Null, end |-> Null]

RelationshipAuthorMusicianInputsSave ==
    {AValidRelationshipAuthorMusician,
     [AValidRelationshipAuthorMusician EXCEPT !.start = Some(MinYear - 1)],
     [AValidRelationshipAuthorMusician EXCEPT !.end = Some(BaseYear + 1)],
     [AValidRelationshipAuthorMusician EXCEPT !.musician = Null]}

RelationshipAuthorSongInputsSave ==
    {[author |-> Some(1), song |-> Some(1)], [author |-> Null, song |-> Some(1)]}

NextSave ==
    \/ \E a \in AuthorInputsSave, adding \in Adding(authors, 1) :
         SaveAuthor(1, a, adding)
    \/ \E al \in AlbumInputsSave, adding \in Adding(albums, 1) :
         SaveAlbum(1, al, adding)
    \/ \E m \in MusicianInputsSave, adding \in Adding(musicians, 1) :
         SaveMusician(1, m, adding)
    \/ \E sg \in SongInputsSave, adding \in Adding(songs, 1) :
         SaveSong(1, sg, adding)
    \/ CreateUser(1)
    \/ \E p \in ProfileInputsSave, adding \in Adding(profiles, 1) :
         SaveProfile(1, p, adding)
    \/ \E r \in RelationshipAuthorMusicianInputsSave,
          adding \in Adding(authorMusician, 1) :
         SaveRelationshipAuthorMusician(1, r, adding)
    \/ \E r \in RelationshipAuthorSongInputsSave,
          adding \in Adding(authorSong, 1) :
         SaveRelationshipAuthorSong(1, r, adding)

SpecSave == Init /\ [][NextSave]_vars

\* ------------------------------------------------------------ SpecSong
\* songs, their authors and albums; one song more than MaxSong, so that
\* two songs can carry the same tuple.  In this and the following
\* specifications an instance is a new one when its primary key is not
\* stored and one loaded from its row when it is.
SongIdsSong == 1..(MaxSong + 1)

SongInputsSong ==
    {[AValidSong EXCEPT !.author = a, !.album = al] :
        a \in Nullable(AuthorIds), al \in Nullable(AlbumIds)}

NextSong ==
    \/ \E pk \in AuthorIds :
         SaveAuthor(pk, AValidAuthor, pk \notin DOMAIN authors)
    \/ \E pk \in AlbumIds : SaveAlbum(pk, AValidAlbum, pk \notin DOMAIN albums)
    \/ \E pk \in SongIdsSong, sg \in SongInputsSong :
         SaveSong(pk, sg, pk \notin DOMAIN songs)
    \/ \E pk \in AuthorIds : DeleteAuthor(pk)
    \/ \E pk \in AlbumIds : DeleteAlbum(pk)
    \/ \E pk \in SongIdsSong : DeleteSong(pk)

SpecSong == Init /\ [][NextSong]_vars

\* --------------------------------------------------------- SpecProfile
\* profiles and the songs they prefer
SongInputsProfile ==
    {[AValidSong EXCEPT !.album = al] : al \in Nullable(AlbumIds)}

ProfileInputsProfile ==
    {[AValidProfile EXCEPT !.user = Some(u), !.preferred_song = sg,
                           !.preferred_style = st] :
        u \in UserIds, sg \in Nullable(SongIdsSong), st \in {"Rock", "Folk"}}

NextProfile ==
    \/ \E u \in UserIds : CreateUser(u)
    \/ \E pk \in AlbumIds : SaveAlbum(pk, AValidAlbum, pk \notin DOMAIN albums)
    \/ \E pk \in SongIdsSong, sg \in SongInputsProfile :
         SaveSong(pk, sg, pk \notin DOMAIN songs)
    \/ \E pk \in ProfileIds, p \in ProfileInputsProfile :
         SaveProfile(pk, p, pk \notin DOMAIN profiles)
    \/ \E pk \in AlbumIds : DeleteAlbum(pk)
    \/ \E pk \in SongIdsSong : DeleteSong(pk)
    \/ \E pk \in UserIds : DeleteUser(pk)
    \/ \E pk \in ProfileIds : DeleteProfile(pk)

SpecProfile == Init /\ [][NextProfile]_vars

\* ------------------------------------------------------------- SpecM2M
\* the many-to-many relation Song.authors, of two songs and more
RelationshipAuthorSongInputsM2M ==
    [author : {Some(a) : a \in AuthorIds},
     song : {Some(sg) : sg \in SongIdsSong}]

NextM2M ==
    \/ \E pk \in AuthorIds :
         SaveAuthor(pk, AValidAuthor, pk \notin DOMAIN authors)
    \/ \E pk \in SongIdsSong : SaveSong(pk, AValidSong, pk \notin DOMAIN songs)
    \/ \E s \in SongIdsSong, ids \in SUBSET AuthorIds : AddAuthors(s, ids)
    \/ \E pk \in AuthorSongIds, r \in RelationshipAuthorSongInputsM2M :
         SaveRelationshipAuthorSong(pk, r, pk \notin DOMAIN authorSong)
    \/ \E pk \in AuthorSongIds : DeleteRelationshipAuthorSong(pk)
    \/ \E pk \in AuthorIds : DeleteAuthor(pk)
    \/ \E pk \in SongIdsSong : DeleteSong(pk)

SpecM2M == Init /\ [][NextM2M]_vars

\* ------------------------------------------------------------- SpecRef
\* every table, every save, every delete
RelationshipAuthorSongInputs ==
    [author : {Some(a) : a \in AuthorIds}, song : {Some(sg) : sg \in SongIds}]

MusicianInputsRef ==
    {[AValidMusician EXCEPT !.author = Some(a)] : a \in AuthorIds}

SongInputsRef ==
    {[AValidSong EXCEPT !.author = a, !.album = al, !.created_by = c,
                        !.last_modified_by = m] :
        a \in Nullable(AuthorIds), al \in Nullable(AlbumIds),
        c \in Nullable(UserIds), m \in Nullable(UserIds)}

ProfileInputsRef ==
    {[AValidProfile EXCEPT !.user = Some(u), !.preferred_song = sg] :
        u \in UserIds, sg \in Nullable(SongIds)}

RelationshipAuthorMusicianInputsRef ==
    [author : {Some(a) : a \in AuthorIds},
     musician : {Some(m) : m \in MusicianIds}, start : {Null}, end : {Null}]

NextRef ==
    \/ \E pk \in AuthorIds :
         SaveAuthor(pk, AValidAuthor, pk \notin DOMAIN authors)
    \/ \E pk \in MusicianIds, m \in MusicianInputsRef :
         SaveMusician(pk, m, pk \notin DOMAIN musicians)
    \/ \E pk \in AlbumIds : SaveAlbum(pk, AValidAlbum, pk \notin DOMAIN albums)
    \/ \E pk \in SongIds, sg \in SongInputsRef :
         SaveSong(pk, sg, pk \notin DOMAIN songs)
    \/ \E u \in UserIds : CreateUser(u)
    \/ \E pk \in ProfileIds, p \in ProfileInputsRef :
         SaveProfile(pk, p, pk \notin DOMAIN profiles)
    \/ \E pk \in AuthorMusicianIds, r \in RelationshipAuthorMusicianInputsRef :
         SaveRelationshipAuthorMusician(pk, r, pk \notin DOMAIN authorMusician)
    \/ \E pk \in AuthorSongIds, r \in RelationshipAuthorSongInputs :
         SaveRelationshipAuthorSong(pk, r, pk \notin DOMAIN authorSong)
    \/ \E s \in SongIds, ids \in SUBSET AuthorIds : AddAuthors(s, ids)
    \/ \E pk \in AuthorIds : DeleteAuthor(pk)
    \/ \E pk \in MusicianIds : DeleteMusician(pk)
    \/ \E pk \in AlbumIds : DeleteAlbum(pk)
    \/ \E pk \in SongIds : DeleteSong(pk)
    \/ \E pk \in UserIds : DeleteUser(pk)
    \/ \E pk \in ProfileIds : DeleteProfile(pk)
    \/ \E pk \in AuthorMusicianIds : DeleteRelationshipAuthorMusician(pk)
    \/ \E pk \in AuthorSongIds : DeleteRelationshipAuthorSong(pk)

SpecRef == Init /\ [][NextRef]_vars

\* =================================================================== claims

SongTuple(row) == <<row.title, row.author, row.album, row.duration>>

\* C1: no two stored Songs have the same (title, author, album, duration),
\* a null author or album counting as a value of the tuple.
C1_UniqueSongTuples ==
    \A j \in DOMAIN songs, k \in DOMAIN songs :
        j # k => SongTuple(songs[j]) # SongTuple(songs[k])

SaveContract(step, clean, tbl, pk, row) ==
    step =>
        IF clean
        THEN raised' = "none" /\ pk \in DOMAIN tbl' /\ tbl'[pk] = row
        ELSE raised' = "ValidationError" /\ UNCHANGED tables

\* C2: save() validates before it writes: a save that breaks a rule raises
\* a validation error and leaves every table as it was, and a save that
\* breaks none writes its row.
C2_ValidationBeforeWrite ==
    [][/\ \A a \in AuthorInputsSave, adding \in Adding(authors, 1) :
            SaveContract(SaveAuthor(1, a, adding),
                         Author_full_clean(1, a, adding), authors, 1, a)
       /\ \A al \in AlbumInputsSave, adding \in Adding(albums, 1) :
            SaveContract(SaveAlbum(1, al, adding),
                         Album_full_clean(1, al, adding), albums, 1, al)
       /\ \A m \in MusicianInputsSave, adding \in Adding(musicians, 1) :
            SaveContract(SaveMusician(1, m, adding),
                         Musician_full_clean(1, m, adding), musicians, 1, m)
       /\ \A sg \in SongInputsSave, adding \in Adding(songs, 1) :
            SaveContract(SaveSong(1, sg, adding),
                         Song_full_clean(1, sg, adding), songs, 1,
                         SongRow(1, sg))
       /\ \A p \in ProfileInputsSave, adding \in Adding(profiles, 1) :
            SaveContract(SaveProfile(1, p, adding),
                         Profile_full_clean(1, p, adding), profiles, 1, p)
       /\ \A r \in RelationshipAuthorMusicianInputsSave,
             adding \in Adding(authorMusician, 1) :
            SaveContract(SaveRelationshipAuthorMusician(1, r, adding),
                         RelationshipAuthorMusician_full_clean(1, r, adding),
                         authorMusician, 1, r)
       /\ \A r \in RelationshipAuthorSongInputsSave,
             adding \in Adding(authorSong, 1) :
            SaveContract(SaveRelationshipAuthorSong(1, r, adding),
                         RelationshipAuthorSong_full_clean(1, r, adding),
                         authorSong, 1, r)
       /\ raised' = "ValidationError" => UNCHANGED tables]_vars

\* a save was rejected while rows of several tables are stored
C2_Witness ==
    /\ called = "save"
    /\ raised = "ValidationError"
    /\ DOMAIN authors # {}
    /\ DOMAIN songs # {}
    /\ DOMAIN profiles # {}

BothSet(a) == a.first_appearance # Null /\ a.last_appearance # Null

\* C3: an Author with both years set and first_appearance > last_appearance
\* is not saved; with first_appearance <= last_appearance, or a year unset,
\* and no other rule broken the Author is saved.
C3_AppearanceOrder ==
    [][\A a \in AuthorInputsVal :
         SaveAuthor(1, a, 1 \notin DOMAIN authors) =>
            IF BothSet(a) /\ Val(a.first_appearance) > Val(a.last_appearance)
            THEN raised' = "ValidationError" /\ authors' = authors
            ELSE Author_clean_fields(a) =>
                    (raised' = "none" /\ authors'[1] = a)]_vars

\* an Author with equal years is stored
C3_Witness ==
    /\ 1 \in DOMAIN authors
    /\ authors[1].first_appearance # Null
    /\ authors[1].first_appearance = authors[1].last_appearance

OutOfRange(x) == x # Null /\ (Val(x) < MinYear \/ Val(x) > now)

\* C4: every year field (first_appearance, last_appearance,
\* year_of_release, start and end of RelationshipAuthorMusician) is rejected
\* below 1000 and above the current year.
C4_EveryYearFieldBounded ==
    [][/\ \A a \in AuthorInputsSave, adding \in Adding(authors, 1) :
            (/\ SaveAuthor(1, a, adding)
             /\ OutOfRange(a.first_appearance) \/ OutOfRange(a.last_appearance))
            => raised' = "ValidationError"
       /\ \A al \in AlbumInputsSave, adding \in Adding(albums, 1) :
            (SaveAlbum(1, al, adding) /\ OutOfRange(al.year_of_release))
            => raised' = "ValidationError"
       /\ \A r \in RelationshipAuthorMusicianInputsSave,
             adding \in Adding(authorMusician, 1) :
            (/\ SaveRelationshipAuthorMusician(1, r, adding)
             /\ OutOfRange(r.start) \/ OutOfRange(r["end"]))
            => raised' = "ValidationError"]_vars

\* C5: the upper bound of a year field is the year of the clock when the
\* save validates: a year one above the current year is rejected, the
\* current year itself is accepted, the clock never goes back, and a stored
\* row (accepted at an earlier time) is accepted again when it is saved
\* as it is.
C5_MovingUpperBound ==
    [][/\ now' >= now
       /\ \A al \in AlbumInputsVal :
            SaveAlbum(1, al, 1 \notin DOMAIN albums) =>
               /\ al.year_of_release = Some(now + 1) =>
                    (raised' = "ValidationError" /\ albums' = albums)
               /\ al.year_of_release = Some(now) =>
                    (raised' = "none" /\ albums'[1] = al)
               /\ (1 \in DOMAIN albums /\ al = albums[1]) => raised' = "none"
       /\ \A a \in AuthorInputsVal :
            SaveAuthor(1, a, 1 \notin DOMAIN authors) =>
               /\ (Some(now + 1) \in {a.first_appearance, a.last_appearance})
                    => (raised' = "ValidationError" /\ authors' = authors)
               /\ (a.first_appearance = Some(now) /\ a.last_appearance = Some(now))
                    => (raised' = "none" /\ authors'[1] = a)
               /\ (1 \in DOMAIN authors /\ a = authors[1]) => raised' = "none"]_vars

\* a year that was above the first current year is stored after the new year
C5_Witness ==
    /\ now = BaseYear + 1
    /\ 1 \in DOMAIN albums
    /\ albums[1].year_of_release = Some(BaseYear + 1)
    /\ 1 \in DOMAIN authors
    /\ authors[1].last_appearance = Some(BaseYear + 1)

\* C6: a Song with price >= 5.00 is not saved; a Song with a price of
\* 0.00 to 4.99 that would be saved with price 0 is saved.
C6_PriceBelowFive ==
    [][\A sg \in SongInputsVal :
         SaveSong(1, sg, 1 \notin DOMAIN songs) =>
            /\ sg.price >= 5 * 10^decimal_places =>
                 (raised' = "ValidationError" /\ songs' = songs)
            /\ (/\ sg.price \in 0 .. (5 * 10^decimal_places - 1)
                /\ Song_full_clean(1, [sg EXCEPT !.price = 0],
                                   1 \notin DOMAIN songs))
                 => (raised' = "none" /\ songs'[1] = SongRow(1, sg))]_vars

\* a Song of 4.99 is stored
C6_Witness ==
    /\ 1 \in DOMAIN songs
    /\ songs[1].price = 5 * 10^decimal_places - 1

\* C7: deleting an Author keeps every Song and nulls the author field of
\* the Songs that referred to it, nothing else of them; deleting an Album
\* deletes the Songs that referred to it and no other Song.
C7_DeletePolicies ==
    [][/\ called' = "Author.delete" =>
            \A a \in AuthorIds :
               DeleteAuthor(a) =>
                  songs' = [k \in DOMAIN songs |->
                              IF songs[k].author = Some(a)
                              THEN [songs[k] EXCEPT !.author = Null]
                              ELSE songs[k]]
       /\ called' = "Album.delete" =>
            \A al \in AlbumIds :
               DeleteAlbum(al) =>
                  songs' = Without(songs, {k \in DOMAIN songs :
                                             songs[k].album = Some(al)})]_vars

\* an Author was deleted; a Song of an album has no author and another
\* Song still has its author
C7_Witness ==
    /\ called = "Author.delete"
    /\ \E j \in DOMAIN songs, k \in DOMAIN songs :
         /\ songs[j].author = Null
         /\ songs[j].album # Null
         /\ songs[k].author # Null

\* C8: add() of stored Author ids joins the Song to each of them once:
\* reading the relation back gives each added Author that was not joined
\* yet exactly once and every other Author as often as before, so a
\* relation that was empty reads back as exactly the added set, whatever
\* the order and the number of the calls.
C8_AddThenRead ==
    [][called' = "add" =>
         \A s \in SongIdsSong, ids \in SUBSET AuthorIds :
            (ids \subseteq DOMAIN authors /\ AddAuthors(s, ids)) =>
               /\ raised' = "none"
               /\ DOMAIN authors_all(s)' = DOMAIN authors_all(s) \cup ids
               /\ \A a \in DOMAIN authors_all(s)' :
                    authors_all(s)'[a] =
                       IF a \in DOMAIN authors_all(s)
                       THEN authors_all(s)[a] ELSE 1
               /\ authors_all(s) = Empty =>
                    authors_all(s)' = [a \in ids |-> 1]]_vars

\* after an add() the Song reads back every Author exactly once
C8_Witness ==
    /\ called = "add"
    /\ raised = "none"
    /\ 1 \in DOMAIN songs
    /\ authors_all(1) = [a \in AuthorIds |-> 1]

PreferredSongNulled(deleted) ==
    profiles' = [p \in DOMAIN profiles |->
                   IF /\ profiles[p].preferred_song # Null
                      /\ profiles[p].preferred_song \subseteq deleted
                   THEN [profiles[p] EXCEPT !.preferred_song = Null]
                   ELSE profiles[p]]

\* C9: deleting a Song, or the Album of Songs, deletes no Profile: the
\* Profiles that preferred a deleted Song stay with preferred_song null and
\* nothing else changed; the other Profiles stay as they are.
C9_ProfileOutlivesSong ==
    [][/\ called' = "Song.delete" =>
            \A sg \in SongIdsSong :
               DeleteSong(sg) => PreferredSongNulled({sg})
       /\ called' = "Album.delete" =>
            \A al \in AlbumIds :
               DeleteAlbum(al) =>
                  PreferredSongNulled({k \in DOMAIN songs :
                                         songs[k].album = Some(al)})]_vars

\* an Album was deleted and took its Songs along; a Profile is stored and
\* prefers no Song
C9_Witness ==
    /\ called = "Album.delete"
    /\ DOMAIN songs = {}
    /\ \E p \in DOMAIN profiles : profiles[p].preferred_song = Null

ReferentialIntegrity ==
    /\ \A k \in DOMAIN musicians : Refers(musicians[k].author, DOMAIN authors)
    /\ \A k \in DOMAIN songs :
         /\ Refers(songs[k].author, DOMAIN authors)
         /\ Refers(songs[k].album, DOMAIN albums)
         /\ Refers(songs[k].created_by, users)
         /\ Refers(songs[k].last_modified_by, users)
    /\ \A k \in DOMAIN profiles :
         /\ Refers(profiles[k].user, users)
         /\ Refers(profiles[k].preferred_song, DOMAIN songs)
    /\ \A k \in DOMAIN authorMusician :
         /\ Refers(authorMusician[k].author, DOMAIN authors)
         /\ Refers(authorMusician[k].musician, DOMAIN musicians)
    /\ \A k \in DOMAIN authorSong :
         /\ Refers(authorSong[k].author, DOMAIN authors)
         /\ Refers(authorSong[k].song, DOMAIN songs)

MusiciansOf(a) == {m \in DOMAIN musicians : musicians[m].author = Some(a)}

\* C10: every non-null reference of a stored row refers to a stored row;
\* deleting an Author deletes its Musicians and every join row of the
\* Author or of one of those Musicians.
C10_ReferentialIntegrity ==
    /\ []ReferentialIntegrity
    /\ [][called' = "Author.delete" =>
            \A a \in AuthorIds :
               DeleteAuthor(a) =>
                  /\ musicians' = Without(musicians, MusiciansOf(a))
                  /\ authorMusician' =
                       Without(authorMusician,
                               {r \in DOMAIN authorMusician :
                                  \/ authorMusician[r].author = Some(a)
                                  \/ authorMusician[r].musician # Null
                                     /\ authorMusician[r].musician
                                          \subseteq MusiciansOf(a)})
                  /\ authorSong' =
                       Without(authorSong,
                               {r \in DOMAIN authorSong :
                                  authorSong[r].author = Some(a)})]_vars

\* an Author was deleted and another is stored, no Musician and no join row
\* of a Musician is left, a Song is still preferred by a Profile and joined
\* to an Author
C10_Witness ==
    /\ called = "Author.delete"
    /\ DOMAIN authors # {}
    /\ DOMAIN musicians = {}
    /\ DOMAIN authorMusician = {}
    /\ \E p \in DOMAIN profiles : profiles[p].preferred_song # Null
    /\ DOMAIN authorSong # {}
====
